---- MODULE Spec2Model ----
(***************************************************************************)
(* Portfolio tracker: PortfolioService and PortfolioOverviewTab of         *)
(* gui-component.py as a state machine over the in-memory holdings table,  *)
(* the JSON store file, the table widget and the sector tab's allocation.  *)
(*                                                                         *)
(* Numbers are integers: Shares in units of the spin box's step, prices in *)
(* units of currency, Total Value their product, Percentage in hundredths  *)
(* of a percent (two decimal places).  NaN is the float not-a-number that  *)
(* pd.to_numeric(errors='coerce') produces; it is kept apart from every    *)
(* number by the operators below.  An optional value (Python None, a       *)
(* missing dict key, JSON null) is a sequence of length 0 or 1.            *)
(***************************************************************************)
EXTENDS Integers, Sequences, FiniteSets, TLC

----------------------------------------------------------------------------
(* Bounds of the model *)

\* most rows the holdings table may hold
MaxRows == 2
\* most rows of one imported spreadsheet
MaxImport == 1
\* clock readings 1..MaxTime (datetime.now() formatted to the second)
MaxTime == 2
\* largest Total Value of a holding in the allocation inputs
MaxAllocValue == 3

----------------------------------------------------------------------------
(* Floats *)

\* float('nan'): the value pd.to_numeric(..., errors='coerce') gives a
\* non-numeric cell
NaN == -999

IsNaN(x) == x = NaN

\* IEEE multiplication: NaN is absorbing
Mul(a, b) == IF IsNaN(a) \/ IsNaN(b) THEN NaN ELSE a * b

\* IEEE ==: NaN equals nothing, itself included
FloatEq(a, b) == ~IsNaN(a) /\ ~IsNaN(b) /\ a = b

\* Python truthiness of an optional number: None and 0 are false, NaN is true
Truthy(opt) == opt # << >> /\ opt[1] # 0

None == << >>
Some(x) == << x >>

\* Series.round(2) of a quotient, in hundredths: a / b rounded to the nearest
\* integer, a tie to the even one (b # 0)
RoundHalfEven(a, b) ==
    LET n == IF b < 0 THEN -a ELSE a
        d == IF b < 0 THEN -b ELSE b
        q == n \div d
        r == n - q * d
    IN  IF 2 * r < d THEN q
        ELSE IF 2 * r > d THEN q + 1
        ELSE IF q % 2 = 0 THEN q ELSE q + 1

Times == 1..MaxTime

Range(s) == { s[i] : i \in DOMAIN s }

----------------------------------------------------------------------------
(* Strings: Python's str operations work on characters *)

Chars(s) ==
    CASE s = "AAPL" -> <<"A", "A", "P", "L">>
      [] s = "VOO" -> <<"V", "O", "O">>
      [] s = "Apple Inc." -> <<"A", "p", "p", "l", "e", " ", "I", "n", "c", ".">>
      [] s = "Vanguard S&P 500 ETF" -> <<"V", "a", "n", "g", "u", "a", "r", "d", " ", "S", "&", "P", " ", "5", "0", "0", " ", "E", "T", "F">>
      [] s = "EQUITY" -> <<"E", "Q", "U", "I", "T", "Y">>
      [] s = "ETF" -> <<"E", "T", "F">>
      [] s = "" -> << >>
      [] s = "etf" -> <<"e", "t", "f">>
      [] s = "mutualFund" -> <<"m", "u", "t", "u", "a", "l", "F", "u", "n", "d">>
      [] s = "index" -> <<"i", "n", "d", "e", "x">>
      [] s = "bond" -> <<"b", "o", "n", "d">>
      [] s = "treasury" -> <<"t", "r", "e", "a", "s", "u", "r", "y">>
      [] s = "income" -> <<"i", "n", "c", "o", "m", "e">>
      [] s = "nasdaq" -> <<"n", "a", "s", "d", "a", "q">>
      [] s = "tech" -> <<"t", "e", "c", "h">>
      [] s = "technology" -> <<"t", "e", "c", "h", "n", "o", "l", "o", "g", "y">>
      [] s = "s&p" -> <<"s", "&", "p">>
      [] s = "sp500" -> <<"s", "p", "5", "0", "0">>
      [] s = "500" -> <<"5", "0", "0">>
      [] s = "total market" -> <<"t", "o", "t", "a", "l", " ", "m", "a", "r", "k", "e", "t">>
      [] s = "health" -> <<"h", "e", "a", "l", "t", "h">>
      [] s = "healthcare" -> <<"h", "e", "a", "l", "t", "h", "c", "a", "r", "e">>
      [] s = "energy" -> <<"e", "n", "e", "r", "g", "y">>
      [] s = "oil" -> <<"o", "i", "l">>
      [] s = "gas" -> <<"g", "a", "s">>
      [] s = "financial" -> <<"f", "i", "n", "a", "n", "c", "i", "a", "l">>
      [] s = "bank" -> <<"b", "a", "n", "k">>
      [] s = "dividend" -> <<"d", "i", "v", "i", "d", "e", "n", "d">>
      [] s = "yield" -> <<"y", "i", "e", "l", "d">>
      [] s = "growth" -> <<"g", "r", "o", "w", "t", "h">>
      [] s = "value" -> <<"v", "a", "l", "u", "e">>
      [] s = "bitcoin" -> <<"b", "i", "t", "c", "o", "i", "n">>
      [] s = "crypto" -> <<"c", "r", "y", "p", "t", "o">>
      [] s = "F" -> <<"F">>
      [] s = "GDX" -> <<"G", "D", "X">>
      [] s = "XLF" -> <<"X", "L", "F">>
      [] s = "VFIAX" -> <<"V", "F", "I", "A", "X">>
      [] s = "SWPPX" -> <<"S", "W", "P", "P", "X">>
      [] s = "^VIX" -> <<"^", "V", "I", "X">>
      [] s = "^GSPC" -> <<"^", "G", "S", "P", "C">>
      [] s = "BTC-USD" -> <<"B", "T", "C", "-", "U", "S", "D">>
      [] s = "MSFT" -> <<"M", "S", "F", "T">>
      [] s = "X" -> <<"X">>
      [] s = "MUTUALFUND" -> <<"M", "U", "T", "U", "A", "L", "F", "U", "N", "D">>
      [] s = "INDEX" -> <<"I", "N", "D", "E", "X">>
      [] s = "CRYPTOCURRENCY" -> <<"C", "R", "Y", "P", "T", "O", "C", "U", "R", "R", "E", "N", "C", "Y">>
      [] s = "mutualfund" -> <<"m", "u", "t", "u", "a", "l", "f", "u", "n", "d">>
      [] s = "Nasdaq 100 Technology Index Fund" -> <<"N", "a", "s", "d", "a", "q", " ", "1", "0", "0", " ", "T", "e", "c", "h", "n", "o", "l", "o", "g", "y", " ", "I", "n", "d", "e", "x", " ", "F", "u", "n", "d">>
      [] s = "Tech S&P 500" -> <<"T", "e", "c", "h", " ", "S", "&", "P", " ", "5", "0", "0">>
      [] s = "Total Market" -> <<"T", "o", "t", "a", "l", " ", "M", "a", "r", "k", "e", "t">>
      [] s = "High Yield Bond" -> <<"H", "i", "g", "h", " ", "Y", "i", "e", "l", "d", " ", "B", "o", "n", "d">>
      [] s = "Treasury" -> <<"T", "r", "e", "a", "s", "u", "r", "y">>
      [] s = "Biotech Health" -> <<"B", "i", "o", "t", "e", "c", "h", " ", "H", "e", "a", "l", "t", "h">>
      [] s = "Healthcare" -> <<"H", "e", "a", "l", "t", "h", "c", "a", "r", "e">>
      [] s = "Oil & Gas" -> <<"O", "i", "l", " ", "&", " ", "G", "a", "s">>
      [] s = "BANK" -> <<"B", "A", "N", "K">>
      [] s = "Dividend Growth" -> <<"D", "i", "v", "i", "d", "e", "n", "d", " ", "G", "r", "o", "w", "t", "h">>
      [] s = "Growth Value" -> <<"G", "r", "o", "w", "t", "h", " ", "V", "a", "l", "u", "e">>
      [] s = "Value" -> <<"V", "a", "l", "u", "e">>
      [] s = "Bitcoin Trust" -> <<"B", "i", "t", "c", "o", "i", "n", " ", "T", "r", "u", "s", "t">>
      [] s = "Gold Miners" -> <<"G", "o", "l", "d", " ", "M", "i", "n", "e", "r", "s">>
      [] s = "SP500 Energy" -> <<"S", "P", "5", "0", "0", " ", "E", "n", "e", "r", "g", "y">>
      [] s = "Financial Income" -> <<"F", "i", "n", "a", "n", "c", "i", "a", "l", " ", "I", "n", "c", "o", "m", "e">>
LowerChar(c) ==
    CASE c = "A" -> "a"
      [] c = "B" -> "b"
      [] c = "C" -> "c"
      [] c = "D" -> "d"
      [] c = "E" -> "e"
      [] c = "F" -> "f"
      [] c = "G" -> "g"
      [] c = "H" -> "h"
      [] c = "I" -> "i"
      [] c = "J" -> "j"
      [] c = "K" -> "k"
      [] c = "L" -> "l"
      [] c = "M" -> "m"
      [] c = "N" -> "n"
      [] c = "O" -> "o"
      [] c = "P" -> "p"
      [] c = "Q" -> "q"
      [] c = "R" -> "r"
      [] c = "S" -> "s"
      [] c = "T" -> "t"
      [] c = "U" -> "u"
      [] c = "V" -> "v"
      [] c = "W" -> "w"
      [] c = "X" -> "x"
      [] c = "Y" -> "y"
      [] c = "Z" -> "z"
      [] OTHER -> c

\* str.lower()
Lower(cs) == [i \in DOMAIN cs |-> LowerChar(cs[i])]

\* term in name (substring test)
Contains(name, term) ==
    \E i \in 1..(Len(name) - Len(term) + 1) :
        SubSeq(name, i, i + Len(term) - 1) = term

\* any(term in name for term in terms)
ContainsAny(name, terms) == \E t \in terms : Contains(name, Chars(t))

\* symbol.endswith(c)
EndsWith(cs, c) == Len(cs) > 0 /\ cs[Len(cs)] = c

\* dict.get(key, default) on an optional entry
Get(opt, default) == IF opt = None THEN default ELSE opt[1]

----------------------------------------------------------------------------
(* The market-data provider (yfinance) *)

Symbols == {"AAPL", "VOO"}

\* ticker.info: the descriptive fields the provider holds for a symbol
TickerInfo(symbol) ==
    CASE symbol = "AAPL" ->
           [shortName |-> Some("Apple Inc."), sector |-> Some("Technology"),
            quoteType |-> Some("EQUITY")]
      [] symbol = "VOO" ->
           [shortName |-> Some("Vanguard S&P 500 ETF"), sector |-> None,
            quoteType |-> Some("ETF")]

\* One answer of the provider to a price lookup: reading ticker.info raises,
\* or the info dict carries some of the price fields and
\* history(period='1d') raises, is empty or ends in a Close.
Quote(raises, currentPrice, regularMarketPrice, hist, previousClose) ==
    [raises |-> raises, currentPrice |-> currentPrice,
     regularMarketPrice |-> regularMarketPrice, histRaises |-> FALSE, hist |-> hist,
     previousClose |-> previousClose]

QuoteHistoryRaises(currentPrice, regularMarketPrice, previousClose) ==
    [Quote(FALSE, currentPrice, regularMarketPrice, None, previousClose)
        EXCEPT !.histRaises = TRUE]

QuoteRaises == Quote(TRUE, None, None, None, None)
QuoteNoPrice == Quote(FALSE, None, None, None, None)
QuoteCurrentPrice(p) == Quote(FALSE, Some(p), None, None, None)

ProviderPrices == {3}

\* the provider answers a caller can meet
Quotes == {QuoteRaises, QuoteNoPrice} \cup { QuoteCurrentPrice(p) : p \in ProviderPrices }

----------------------------------------------------------------------------
(* PortfolioService *)

\* get_security_type for what yf.Ticker(symbol).info gives: None when the
\* lookup raises, else the info dict
SecurityType(symbol, info) ==
    IF info = None THEN "Stock"
    ELSE LET quoteType == Lower(Chars(Get(info[1].quoteType, "")))
         IN  IF Contains(quoteType, Chars("etf")) \/ EndsWith(Chars(symbol), "F")
                 THEN "ETF"
             ELSE IF Contains(quoteType, Chars("mutualFund")) \/ EndsWith(Chars(symbol), "X")
                 THEN "Mutual Fund"
             ELSE IF Contains(quoteType, Chars("index"))
                 THEN "Index"
             ELSE "Stock"

get_security_type(symbol, raises) ==
    SecurityType(symbol, IF raises THEN None ELSE Some(TickerInfo(symbol)))

\* get_etf_sector_classification for what yf.Ticker(symbol).info gives: None
\* when the lookup raises, else the info dict
EtfSectorClassification_IndexBeforeTechnology(info) ==
    IF info = None THEN "ETF"
    ELSE LET name == Lower(Chars(Get(info[1].shortName, "")))
         IN  IF ContainsAny(name, {"bond", "treasury", "income"}) THEN "Bond ETF"
             ELSE IF ContainsAny(name, {"s&p", "sp500", "500", "total market"}) THEN "Index ETF"
             ELSE IF ContainsAny(name, {"nasdaq", "tech", "technology"}) THEN "Technology ETF"
             ELSE IF ContainsAny(name, {"health", "healthcare"}) THEN "Healthcare ETF"
             ELSE IF ContainsAny(name, {"energy", "oil", "gas"}) THEN "Energy ETF"
             ELSE IF ContainsAny(name, {"financial", "bank"}) THEN "Financial ETF"
             ELSE IF ContainsAny(name, {"dividend", "yield"}) THEN "Dividend ETF"
             ELSE IF ContainsAny(name, {"growth"}) THEN "Growth ETF"
             ELSE IF ContainsAny(name, {"value"}) THEN "Value ETF"
             ELSE IF ContainsAny(name, {"bitcoin", "crypto"}) THEN "Crypto ETF"
             ELSE "ETF"

EtfSectorClassification(info) ==
    IF info = None THEN "ETF"
    ELSE LET name == Lower(Chars(Get(info[1].shortName, "")))
         IN  IF ContainsAny(name, {"bond", "treasury", "income"}) THEN "Bond ETF"
             ELSE IF ContainsAny(name, {"nasdaq", "tech", "technology"}) THEN "Technology ETF"
             ELSE IF ContainsAny(name, {"s&p", "sp500", "500", "total market"}) THEN "Index ETF"
             ELSE IF ContainsAny(name, {"health", "healthcare"}) THEN "Healthcare ETF"
             ELSE IF ContainsAny(name, {"energy", "oil", "gas"}) THEN "Energy ETF"
             ELSE IF ContainsAny(name, {"financial", "bank"}) THEN "Financial ETF"
             ELSE IF ContainsAny(name, {"dividend", "yield"}) THEN "Dividend ETF"
             ELSE IF ContainsAny(name, {"growth"}) THEN "Growth ETF"
             ELSE IF ContainsAny(name, {"value"}) THEN "Value ETF"
             ELSE IF ContainsAny(name, {"bitcoin", "crypto"}) THEN "Crypto ETF"
             ELSE "ETF"

get_etf_sector_classification(symbol, raises) ==
    EtfSectorClassification(IF raises THEN None ELSE Some(TickerInfo(symbol)))

\* get_price with the historical close tested like an info field: a close
\* of zero is skipped
get_price_SkipsZeroClose(q) ==
    IF q.raises THEN None
    ELSE IF Truthy(q.currentPrice) THEN q.currentPrice
    ELSE IF Truthy(q.regularMarketPrice) THEN q.regularMarketPrice
    ELSE IF q.histRaises THEN None
    ELSE IF Truthy(q.hist) THEN q.hist
    ELSE IF Truthy(q.previousClose) THEN q.previousClose
    ELSE None

\* the price of a quote, or None
get_price(q) ==
    IF q.raises THEN None
    ELSE IF Truthy(q.currentPrice) THEN q.currentPrice
    ELSE IF Truthy(q.regularMarketPrice) THEN q.regularMarketPrice
    ELSE IF q.histRaises THEN None
    ELSE IF q.hist # None THEN q.hist
    ELSE IF Truthy(q.previousClose) THEN q.previousClose
    ELSE None

\* the columns of the holdings table
Columns == {"Symbol", "Company", "Sector", "Shares", "Current Price",
            "Total Value", "Last Updated"}

Row(symbol, company, sector, shares, price, value, updated) ==
    [Symbol |-> symbol, Company |-> company, Sector |-> sector, Shares |-> shares,
     CurrentPrice |-> price, TotalValue |-> value, LastUpdated |-> updated]

\* A value of self.portfolio_df: a pandas DataFrame with its columns and
\* rows (index 0..n-1, row i of the frame is rows[i+1]), or another object.
DataFrame(columns, rows) == [type |-> "DataFrame", columns |-> columns, rows |-> rows]

\* df.empty
IsEmpty(df) == df.rows = << >>

\* a float cell in JSON: NaN is written as null
JsonNumber(x) == IF IsNaN(x) THEN None ELSE Some(x)

\* a JSON number or null read into a float column
FromJsonNumber(v) == IF v = None THEN NaN ELSE v[1]

\* df.to_json(orient='records'): one object per row, in row order; the
\* column names of a frame without rows are not written
to_json(df) ==
    IF IsEmpty(df) THEN << >>
    ELSE [i \in DOMAIN df.rows |->
        [Symbol |-> df.rows[i].Symbol, Company |-> df.rows[i].Company,
         Sector |-> df.rows[i].Sector, Shares |-> JsonNumber(df.rows[i].Shares),
         CurrentPrice |-> JsonNumber(df.rows[i].CurrentPrice),
         TotalValue |-> JsonNumber(df.rows[i].TotalValue),
         LastUpdated |-> df.rows[i].LastUpdated]]

\* pd.read_json(text, orient='records'): the columns are the keys met in the
\* records, so an empty list gives a frame with no columns
read_json(text) ==
    IF text = << >> THEN DataFrame({}, << >>)
    ELSE DataFrame(Columns,
        [i \in DOMAIN text |->
            Row(text[i].Symbol, text[i].Company, text[i].Sector,
                FromJsonNumber(text[i].Shares), FromJsonNumber(text[i].CurrentPrice),
                FromJsonNumber(text[i].TotalValue), text[i].LastUpdated)])

\* The store file portfolio_data.json: absent, or holding a JSON text, or
\* damaged: "unreadable" makes open() or read() raise, "corrupt" is content
\* on which pd.read_json raises ValueError.
NoFile == [exists |-> FALSE, damage |-> "none", text |-> << >>]
File(text) == [exists |-> TRUE, damage |-> "none", text |-> text]
DamagedFile(damage) == [exists |-> TRUE, damage |-> damage, text |-> << >>]

\* save_portfolio that returns True whatever happened
save_portfolio_ReportsSuccess(file, df, io_ok) ==
    IF df.type = "DataFrame" /\ io_ok
        THEN [file |-> File(to_json(df)), result |-> TRUE]
        ELSE [file |-> file, result |-> TRUE]

\* save_portfolio(df): the file after the call, and the returned flag.
\* io_ok is whether open()/write() succeed; a df that is no DataFrame has
\* no to_json, which raises before the file is opened.
save_portfolio(file, df, io_ok) ==
    IF df.type = "DataFrame" /\ io_ok
        THEN [file |-> File(to_json(df)), result |-> TRUE]
        ELSE [file |-> file, result |-> FALSE]

\* load_portfolio whose except branch returns pd.DataFrame()
load_portfolio_NoColumnsOnError(file) ==
    IF ~file.exists THEN DataFrame(Columns, << >>)
    ELSE IF file.damage # "none" THEN DataFrame({}, << >>)
    ELSE read_json(file.text)

\* load_portfolio(): the except branch takes what open, read and read_json
\* raise
load_portfolio(file) ==
    IF ~file.exists THEN DataFrame(Columns, << >>)
    ELSE IF file.damage # "none" THEN DataFrame(Columns, << >>)
    ELSE read_json(file.text)

\* the columns update_portfolio_prices adds to a frame that lacks them, the
\* cells of an added column holding 0.0, or None in 'Last Updated'
PriceColumns == {"Current Price", "Total Value", "Last Updated"}

\* None in a 'Last Updated' cell: no time
NoTime == 0

\* update_portfolio_prices whose loop ends at the first symbol without a price
update_portfolio_prices_StopsAtFailure(df, quotes, now) ==
    IF IsEmpty(df) THEN df
    ELSE DataFrame(df.columns \cup PriceColumns,
        [i \in DOMAIN df.rows |->
            LET row == df.rows[i]
                price == get_price(quotes[i])
            IN  IF \A j \in 1..i : Truthy(get_price(quotes[j]))
                    THEN [row EXCEPT !.CurrentPrice = price[1],
                                     !.TotalValue = Mul(price[1], row.Shares),
                                     !.LastUpdated = now]
                    ELSE row])

\* update_portfolio_prices(df): quotes[i] is the provider's answer for row i
update_portfolio_prices(df, quotes, now) ==
    IF IsEmpty(df) THEN df
    ELSE DataFrame(df.columns \cup PriceColumns,
        [i \in DOMAIN df.rows |->
            LET row == df.rows[i]
                price == get_price(quotes[i])
            IN  IF Truthy(price)
                    THEN [row EXCEPT !.CurrentPrice = price[1],
                                     !.TotalValue = Mul(price[1], row.Shares),
                                     !.LastUpdated = now]
                    ELSE row])

\* sector names in Python's str order (groupby sorts its keys)
SectorNames == << "", "Consumer Discretionary", "ETF", "Financials", "Health Care",
                  "Index ETF", "Industrials", "Information Technology", "Technology",
                  "Unknown" >>

\* Series.sum(): NaN cells are skipped
RECURSIVE SumTotalValue(_)
SumTotalValue(rows) ==
    IF rows = << >> THEN 0
    ELSE (IF IsNaN(Head(rows).TotalValue) THEN 0 ELSE Head(rows).TotalValue)
         + SumTotalValue(Tail(rows))

\* df.groupby('Sector').agg({'Total Value': 'sum'}).reset_index()
GroupBySector(rows) ==
    LET present == { rows[i].Sector : i \in DOMAIN rows }
        keys == SelectSeq(SectorNames, LAMBDA s : s \in present)
    IN  [k \in DOMAIN keys |->
            [Sector |-> keys[k],
             TotalValue |-> SumTotalValue(SelectSeq(rows, LAMBDA r : r.Sector = keys[k]))]]

\* Percentage cut off after two decimals instead of rounded
Percentage_Truncated(value, total_portfolio) ==
    IF total_portfolio > 0 THEN (10000 * value) \div total_portfolio ELSE 0

\* Percentage without the test of the total: 0 / 0 is NaN
Percentage_NoZeroGuard(value, total_portfolio) ==
    IF total_portfolio = 0 THEN NaN
    ELSE RoundHalfEven(10000 * value, total_portfolio)

\* the Percentage column
Percentage(value, total_portfolio) ==
    IF total_portfolio > 0 THEN RoundHalfEven(10000 * value, total_portfolio) ELSE 0

\* sort_values('Percentage', ascending=False) with the default kind
\* 'quicksort', which is not stable: every order of the rows that is
\* descending in Percentage is a possible result.
RECURSIVE SortValues(_, _)
SortValues(summary, left) ==
    IF left = {} THEN { << >> }
    ELSE LET top == { i \in left : \A j \in left :
                          summary[i].Percentage >= summary[j].Percentage }
         IN  UNION { { << summary[i] >> \o rest :
                          rest \in SortValues(summary, left \ {i}) } : i \in top }

\* calculate_sector_allocation without the test of df.empty: the groupby
\* of a frame that has no 'Sector' column raises
calculate_sector_allocation_NoEmptyGuard(df) ==
    IF "Sector" \notin df.columns THEN {}
    ELSE LET groups == GroupBySector(df.rows)
             total_portfolio == SumTotalValue(df.rows)
             summary == [k \in DOMAIN groups |->
                            [Sector |-> groups[k].Sector,
                             TotalValue |-> groups[k].TotalValue,
                             Percentage |-> Percentage(groups[k].TotalValue, total_portfolio)]]
         IN  SortValues(summary, DOMAIN summary)

\* calculate_sector_allocation(df): the set of frames it may return
calculate_sector_allocation(df) ==
    IF IsEmpty(df) \/ "Total Value" \notin df.columns THEN { << >> }
    ELSE LET groups == GroupBySector(df.rows)
             total_portfolio == SumTotalValue(df.rows)
             summary == [k \in DOMAIN groups |->
                            [Sector |-> groups[k].Sector,
                             TotalValue |-> groups[k].TotalValue,
                             Percentage |-> Percentage(groups[k].TotalValue, total_portfolio)]]
         IN  SortValues(summary, DOMAIN summary)

----------------------------------------------------------------------------
(* The application: PortfolioTrackerApp with its PortfolioOverviewTab and  *)
(* SectorAllocationTab                                                     *)

VARIABLES
    running,       \* the process is alive (an exception that leaves a Qt slot aborts it)
    portfolio_df,  \* PortfolioOverviewTab.portfolio_df
    data_file,     \* the file portfolio_data.json
    table_rows,    \* rowCount() of the PortfolioTableWidget
    sector_data,   \* SectorAllocationTab.sector_data (<< >> while None)
    outcome,       \* how the last handler ended
    saved,         \* what save_portfolio returned in the last handler, "none" if not called
    args,          \* the arguments of a service call made on its own (<< >> if none)
    result         \* what the last call or handler reported: the value a service
                   \* call returned, the counts in the message of an import, else << >>

vars == << running, portfolio_df, data_file, table_rows, sector_data, outcome, saved,
           args, result >>

\* the rows of the holdings table; none while portfolio_df is no DataFrame
Holdings == IF portfolio_df.type = "DataFrame" THEN portfolio_df.rows ELSE << >>

\* whether open(data_file, 'w') and f.write succeed when a handler saves
WriteOutcomes == {TRUE}

\* QDoubleSpinBox with range 0.001..100000: the Shares a user can enter
DialogShares == {2}

\* StockSearchDialog.search_stock: stock_data, or None when nothing is found
search_stock(symbol, q) ==
    IF q.raises \/ TickerInfo(symbol).shortName = None THEN None
    ELSE Some([symbol |-> symbol,
               name |-> Get(TickerInfo(symbol).shortName, "Unknown"),
               sector |-> Get(TickerInfo(symbol).sector, "Unknown"),
               price |-> Get(q.currentPrice,
                             Get(q.regularMarketPrice, Get(q.previousClose, 0)))])

\* StockSearchDialog.get_position_data
get_position_data(stock_data, shares, now) ==
    Row(stock_data.symbol, stock_data.name, stock_data.sector, shares,
        stock_data.price, Mul(stock_data.price, shares), now)

\* pd.concat([df, other], ignore_index=True)
concat(df, rows) == DataFrame(df.columns \cup Columns, df.rows \o rows)

\* PortfolioTableWidget.update_from_dataframe, the summary label, and the
\* portfolio_updated signal into SectorAllocationTab.update_from_portfolio
update_display(df) ==
    /\ table_rows' = Len(df.rows)
    /\ sector_data' \in (IF IsEmpty(df) THEN {sector_data}
                         ELSE calculate_sector_allocation(df))

\* "Save and update": the tail of every mutating handler
SaveAndUpdate(df, io_ok) ==
    /\ UNCHANGED args
    /\ portfolio_df' = df
    /\ data_file' = save_portfolio(data_file, df, io_ok).file
    /\ saved' = IF save_portfolio(data_file, df, io_ok).result THEN "True" ELSE "False"
    /\ update_display(df)

\* a handler that falls through to "Save and update" instead of returning
Return_FallsThrough(how) ==
    /\ outcome' = how
    /\ running' = running
    /\ result' = << >>
    /\ SaveAndUpdate(portfolio_df, TRUE)

\* the handler returns without touching anything
Return(how) ==
    /\ outcome' = how
    /\ saved' = "none"
    /\ result' = << >>
    /\ UNCHANGED << running, portfolio_df, data_file, table_rows, sector_data, args >>

\* an exception leaves the slot: PyQt6 calls qFatal() and the process aborts
Raise(exception) ==
    /\ running' = FALSE
    /\ outcome' = exception
    /\ saved' = "none"
    /\ result' = << >>
    /\ UNCHANGED << portfolio_df, data_file, table_rows, sector_data, args >>

\* the first index whose row carries the symbol: df[df['Symbol'] == symbol].index[0]
FirstIndex(rows, symbol) ==
    CHOOSE i \in DOMAIN rows :
        /\ rows[i].Symbol = symbol
        /\ \A j \in DOMAIN rows : rows[j].Symbol = symbol => i <= j

\* an "Update" branch that stores the whole of position_data in the row
UpdateExisting_ReplacesRow(df, position_data) ==
    LET idx == FirstIndex(df.rows, position_data.Symbol)
    IN  DataFrame(df.columns, [df.rows EXCEPT ![idx] = position_data])

\* the "Update" branch of add_position
UpdateExisting(df, position_data) ==
    LET idx == FirstIndex(df.rows, position_data.Symbol)
    IN  DataFrame(df.columns,
            [df.rows EXCEPT ![idx] =
                [@ EXCEPT !.Shares = position_data.Shares,
                          !.CurrentPrice = position_data.CurrentPrice,
                          !.TotalValue = position_data.TotalValue,
                          !.LastUpdated = position_data.LastUpdated]])

\* add_position without the test for the symbol: the position is appended
\* whether or not the table holds the symbol
add_position_AlwaysAppends(symbol, q, shares, now, button, io_ok) ==
    /\ running
    /\ search_stock(symbol, q) # None
    /\ LET position_data == get_position_data(search_stock(symbol, q)[1], shares, now)
       IN  IF portfolio_df.type # "DataFrame" THEN Raise("TypeError")
           ELSE IF "Symbol" \notin portfolio_df.columns THEN Raise("KeyError")
           ELSE /\ Len(portfolio_df.rows) < MaxRows
                /\ running' = running
                /\ outcome' = "Added"
                /\ result' = << >>
                /\ SaveAndUpdate(concat(portfolio_df, << position_data >>), io_ok)

\* PortfolioOverviewTab.add_position, the dialog accepted with stock_data set.
\* button is the button of the "already in your portfolio" box.
add_position(symbol, q, shares, now, button, io_ok) ==
    /\ running
    /\ search_stock(symbol, q) # None
    /\ LET position_data == get_position_data(search_stock(symbol, q)[1], shares, now)
       IN  IF portfolio_df.type # "DataFrame" THEN Raise("TypeError")
           ELSE IF "Symbol" \notin portfolio_df.columns THEN Raise("KeyError")
           ELSE IF \E i \in DOMAIN portfolio_df.rows : portfolio_df.rows[i].Symbol = symbol
               THEN CASE button = "Update" ->
                           /\ running' = running
                           /\ outcome' = "Update"
                           /\ result' = << >>
                           /\ SaveAndUpdate(UpdateExisting(portfolio_df, position_data), io_ok)
                      [] button = "Add New" ->
                           /\ Len(portfolio_df.rows) < MaxRows
                           /\ running' = running
                           /\ outcome' = "Add New"
                           /\ result' = << >>
                           /\ SaveAndUpdate(concat(portfolio_df, << position_data >>), io_ok)
                      [] OTHER -> Return("Cancel")
               ELSE /\ Len(portfolio_df.rows) < MaxRows
                    /\ running' = running
                    /\ outcome' = "Added"
                    /\ result' = << >>
                    /\ SaveAndUpdate(concat(portfolio_df, << position_data >>), io_ok)

\* the box is shown only when the symbol is already in the table
Buttons(symbol) ==
    IF \E i \in DOMAIN Holdings : Holdings[i].Symbol = symbol
        THEN {"Update", "Add New", "Cancel"} ELSE {"none"}

AddPosition ==
    \E symbol \in Symbols, q \in Quotes, shares \in DialogShares, now \in Times,
       io_ok \in WriteOutcomes :
        \E button \in Buttons(symbol) :
            add_position(symbol, q, shares, now, button, io_ok)

\* PortfolioOverviewTab.refresh_portfolio
refresh_portfolio(quotes, now, io_ok) ==
    /\ running
    /\ IF portfolio_df.type # "DataFrame" THEN Raise("AttributeError")
       ELSE IF IsEmpty(portfolio_df) THEN Return("Nothing to refresh")
       ELSE /\ running' = running
            /\ outcome' = "Update Complete"
            /\ result' = << >>
            /\ SaveAndUpdate(update_portfolio_prices(portfolio_df, quotes, now), io_ok)

RefreshPortfolio ==
    \E quotes \in [1..Len(Holdings) -> Quotes], now \in Times, io_ok \in WriteOutcomes :
        refresh_portfolio(quotes, now, io_ok)

\* drop that takes a label for the number of a row counted from 1
drop_CountsFromOne(df, labels) ==
    DataFrame(df.columns,
        LET keep == { i \in DOMAIN df.rows : i \notin labels }
            F[i \in 0..Len(df.rows)] ==
                IF i = 0 THEN << >>
                ELSE IF i \in keep THEN Append(F[i - 1], df.rows[i]) ELSE F[i - 1]
        IN  F[Len(df.rows)])

\* df.drop(index=labels).reset_index(drop=True); label i is rows[i + 1]
drop(df, labels) ==
    DataFrame(df.columns,
        LET keep == { i \in DOMAIN df.rows : (i - 1) \notin labels }
            F[i \in 0..Len(df.rows)] ==
                IF i = 0 THEN << >>
                ELSE IF i \in keep THEN Append(F[i - 1], df.rows[i]) ELSE F[i - 1]
        IN  F[Len(df.rows)])

\* PortfolioOverviewTab.remove_selected; selected_rows are row numbers of the
\* table widget
remove_selected(selected_rows, confirm, io_ok) ==
    /\ running
    /\ IF selected_rows = {} THEN Return("Selection Required")
       ELSE IF ~confirm THEN Return("No")
       ELSE IF portfolio_df.type # "DataFrame" THEN Raise("AttributeError")
       ELSE IF \E r \in selected_rows : r >= Len(portfolio_df.rows) THEN Raise("KeyError")
       ELSE /\ running' = running
            /\ outcome' = "Removed"
            /\ result' = << >>
            /\ SaveAndUpdate(drop(portfolio_df, selected_rows), io_ok)

RemoveSelected ==
    \E selected_rows \in SUBSET (0..(table_rows - 1)), confirm \in BOOLEAN,
       io_ok \in WriteOutcomes :
        remove_selected(selected_rows, confirm, io_ok)

\* a Shares cell of an imported file: a number, or text that is none
NumberCell(x) == [numeric |-> TRUE, value |-> x]
TextCell == [numeric |-> FALSE, value |-> 0]

\* pd.to_numeric(cell, errors='coerce')
to_numeric(cell) == IF cell.numeric THEN cell.value ELSE NaN

ShareCells == {NumberCell(2), NumberCell(-1), TextCell}

\* what the provider does while one imported row is resolved
ImportEnv(info_raises, type_raises, etf_raises, q) ==
    [info_raises |-> info_raises, type_raises |-> type_raises,
     etf_raises |-> etf_raises, quote |-> q]

ImportEnvs == {ImportEnv(FALSE, FALSE, FALSE, QuoteRaises),
               ImportEnv(FALSE, FALSE, FALSE, QuoteCurrentPrice(3))}

\* the Sector of a mutual fund, from its lower-cased short name
FundSector(fund_name) ==
    IF Contains(fund_name, Chars("bond")) \/ Contains(fund_name, Chars("income"))
        THEN "Bond Fund"
    ELSE IF Contains(fund_name, Chars("growth")) THEN "Growth Fund"
    ELSE IF Contains(fund_name, Chars("value")) THEN "Value Fund"
    ELSE IF Contains(fund_name, Chars("index")) THEN "Index Fund"
    ELSE "Mutual Fund"

\* one turn of the loop of process_imported_data over processed_df
ProcessRow(symbol, shares, env, now) ==
    IF env.info_raises THEN Row(symbol, "", "", shares, 0, 0, now)
    ELSE LET info == TickerInfo(symbol)
             security_type == get_security_type(symbol, env.type_raises)
             sector == IF security_type = "ETF"
                           THEN get_etf_sector_classification(symbol, env.etf_raises)
                       ELSE IF security_type = "Mutual Fund"
                           THEN FundSector(Lower(Chars(Get(info.shortName, ""))))
                       ELSE Get(info.sector, "Unknown")
             price == get_price(env.quote)
         IN  IF Truthy(price)
                 THEN Row(symbol, Get(info.shortName, "Unknown"), sector, shares,
                          price[1], Mul(price[1], shares), now)
                 ELSE Row(symbol, Get(info.shortName, "Unknown"), sector, shares, 0, 0, now)

\* processed_df of process_imported_data (has_full_info false)
processed_df(imported, envs, now) ==
    [i \in DOMAIN imported |->
        ProcessRow(imported[i].Symbol, to_numeric(imported[i].Shares), envs[i], now)]

\* successful_imports counted as if every row had been priced
successful_imports_CountsEveryRow(envs) == Len(envs)

\* successful_imports at the end of the loop: the rows whose lookup did not
\* raise and whose price is true
successful_imports(envs) ==
    LET F[i \in 0..Len(envs)] ==
            IF i = 0 THEN 0
            ELSE IF ~envs[i].info_raises /\ Truthy(get_price(envs[i].quote))
                THEN F[i - 1] + 1
            ELSE F[i - 1]
    IN  F[Len(envs)]

\* process_imported_data for a file with Symbol and Shares columns only,
\* called from import_spreadsheet, whose except clause takes every exception
process_imported_data(imported, envs, now, io_ok) ==
    /\ running
    /\ IF portfolio_df.type # "DataFrame" THEN Return("Import Failed")
       ELSE /\ running' = running
            /\ outcome' = "Import Complete"
            /\ result' = << successful_imports(envs), Len(imported) >>
            /\ SaveAndUpdate(
                 IF ~IsEmpty(portfolio_df)
                     THEN concat(portfolio_df, processed_df(imported, envs, now))
                     ELSE DataFrame(Columns, processed_df(imported, envs, now)),
                 io_ok)

ImportedFiles ==
    UNION { [1..n -> [Symbol : Symbols, Shares : ShareCells]] : n \in 0..MaxImport }

ImportSpreadsheet ==
    \E imported \in ImportedFiles, now \in Times, io_ok \in WriteOutcomes :
        /\ Len(Holdings) + Len(imported) <= MaxRows
        /\ \E envs \in [1..Len(imported) -> ImportEnvs] :
               process_imported_data(imported, envs, now, io_ok)

\* process_imported_data for a file that has Company and Sector columns:
\* after the concat, line 724 stores the tab itself in portfolio_df;
\* save_portfolio then fails on to_json, update_from_dataframe clears the
\* widget and fails on df.empty, and import_spreadsheet reports the failure
ImportFullInfo ==
    /\ running
    /\ IF portfolio_df.type # "DataFrame" THEN Return("Import Failed")
       ELSE /\ portfolio_df' = [type |-> "PortfolioOverviewTab", columns |-> {},
                                rows |-> << >>]
            /\ data_file' = save_portfolio(data_file, portfolio_df', TRUE).file
            /\ saved' = "False"
            /\ table_rows' = 0
            /\ outcome' = "Import Failed"
            /\ result' = << >>
            /\ UNCHANGED << running, sector_data, args >>

\* the application is closed (or has aborted) and started again:
\* PortfolioOverviewTab.init_ui loads the table and displays it before the
\* portfolio_updated signal is connected
Restart ==
    /\ running' = TRUE
    /\ portfolio_df' = load_portfolio(data_file)
    /\ table_rows' = Len(load_portfolio(data_file).rows)
    /\ sector_data' = << >>
    /\ outcome' = "started"
    /\ saved' = "none"
    /\ result' = << >>
    /\ UNCHANGED << data_file, args >>

Init ==
    /\ running = TRUE
    /\ data_file = NoFile
    /\ portfolio_df = load_portfolio(NoFile)
    /\ table_rows = 0
    /\ sector_data = << >>
    /\ outcome = "started"
    /\ saved = "none"
    /\ args = << >>
    /\ result = << >>

Next ==
    \/ AddPosition
    \/ RefreshPortfolio
    \/ RemoveSelected
    \/ ImportSpreadsheet
    \/ ImportFullInfo
    \/ Restart

Spec == Init /\ [][Next]_vars

----------------------------------------------------------------------------
(* calculate_sector_allocation as a function of its argument: the inputs   *)
(* are the sub-tables of a portfolio with sectors shared and not shared,   *)
(* every Total Value drawn from 0..MaxAllocValue                           *)

\* holdings of create_portfolio() in portfolio_tracker_cli.py
AllocHoldings ==
    << [Symbol |-> "AAPL", Company |-> "Apple", Sector |-> "Information Technology"],
       [Symbol |-> "ALT", Company |-> "Altimmune", Sector |-> "Health Care"],
       [Symbol |-> "AMD", Company |-> "Advanced Micro Devices",
        Sector |-> "Information Technology"],
       [Symbol |-> "BA", Company |-> "Boeing", Sector |-> "Industrials"],
       [Symbol |-> "BRK-B", Company |-> "Berkshire Hathaway Class B",
        Sector |-> "Financials"],
       [Symbol |-> "CMG", Company |-> "Chipotle Mexican Grill",
        Sector |-> "Consumer Discretionary"] >>

\* the table that holds holding i with Total Value held[i][1], for the i
\* with held[i] not None: one share each, priced at its value
AllocTable(held) ==
    LET F[i \in 0..Len(AllocHoldings)] ==
            IF i = 0 THEN << >>
            ELSE IF held[i] = None THEN F[i - 1]
            ELSE Append(F[i - 1],
                        Row(AllocHoldings[i].Symbol, AllocHoldings[i].Company,
                            AllocHoldings[i].Sector, 1, held[i][1], held[i][1], 1))
    IN  F[Len(AllocHoldings)]

AllocTables ==
    { AllocTable(held) :
        held \in [DOMAIN AllocHoldings -> {None} \cup { Some(v) : v \in 0..MaxAllocValue }] }

InitAlloc ==
    /\ running = TRUE
    /\ data_file = NoFile
    /\ portfolio_df \in { DataFrame(Columns, rows) : rows \in AllocTables }
                        \cup { DataFrame({}, << >>) }
    /\ table_rows = 0
    /\ sector_data = << >>
    /\ outcome = "input"
    /\ saved = "none"
    /\ args = << >>
    /\ result = << >>

\* the call calculate_sector_allocation(portfolio_df)
CalculateSectorAllocation ==
    /\ outcome = "input"
    /\ sector_data' \in calculate_sector_allocation(portfolio_df)
    /\ outcome' = "calculated"
    /\ UNCHANGED << running, portfolio_df, data_file, table_rows, saved, args, result >>

NextAlloc == CalculateSectorAllocation

SpecAlloc == InitAlloc /\ [][NextAlloc]_vars

----------------------------------------------------------------------------
(* process_imported_data on its own: one import of up to MaxBatch rows     *)
(* into a table with or without rows, the provider failing in every way    *)
(* for any of the rows.  args holds the imported file, what the provider   *)
(* does for each of its rows, and the time.                                *)

\* most rows of the imported file
MaxBatch == 2

\* what the provider may do while a row is resolved: ticker.info raises,
\* the lookup inside get_security_type or get_etf_sector_classification
\* raises, the price lookup raises, gives nothing, or gives a price
BatchEnvs ==
    {ImportEnv(TRUE, FALSE, FALSE, QuoteCurrentPrice(3)),
     ImportEnv(FALSE, TRUE, FALSE, QuoteCurrentPrice(3)),
     ImportEnv(FALSE, FALSE, TRUE, QuoteCurrentPrice(3)),
     ImportEnv(FALSE, FALSE, FALSE, QuoteRaises),
     ImportEnv(FALSE, FALSE, FALSE, QuoteNoPrice),
     ImportEnv(FALSE, FALSE, FALSE, QuoteCurrentPrice(3))}

BatchFiles ==
    UNION { [1..n -> [Symbol : Symbols, Shares : ShareCells]] : n \in 0..MaxBatch }

\* the tables the import meets
BatchTables ==
    {DataFrame(Columns, << >>),
     DataFrame(Columns, << Row("AAPL", "Apple Inc.", "Technology", 2, 3, 6, 1) >>)}

InitImport ==
    /\ running = TRUE
    /\ portfolio_df \in BatchTables
    /\ data_file = IF IsEmpty(portfolio_df) THEN NoFile ELSE File(to_json(portfolio_df))
    /\ table_rows = Len(portfolio_df.rows)
    /\ sector_data = << >>
    /\ outcome = "started"
    /\ saved = "none"
    /\ \E imported \in BatchFiles, now \in Times :
           \E envs \in [1..Len(imported) -> BatchEnvs] :
               args = [imported |-> imported, envs |-> envs, now |-> now]
    /\ result = << >>

ImportBatch ==
    /\ outcome = "started"
    /\ process_imported_data(args.imported, args.envs, args.now, TRUE)

NextImport == ImportBatch

SpecImport == InitImport /\ [][NextImport]_vars

----------------------------------------------------------------------------
(* save_portfolio and load_portfolio on their own: one table is saved,     *)
(* with the write succeeding or not, and the store is loaded, before or    *)
(* after the save.  args holds whether the write succeeds.                 *)

\* most rows of the table that is saved
MaxStored == 2

\* rows as the handlers leave them: priced, never priced, Shares not a number
StoreRows ==
    {Row("AAPL", "Apple Inc.", "Technology", 2, 3, 6, 1),
     Row("VOO", "Vanguard S&P 500 ETF", "Index ETF", -1, 0, 0, 2),
     Row("AAPL", "", "", NaN, 0, 0, 2)}

\* what save_portfolio may be given: a table, or the tab that
\* process_imported_data leaves in portfolio_df
StoreTables ==
    { DataFrame(Columns, rows) : rows \in UNION { [1..n -> StoreRows] : n \in 0..MaxStored } }
    \cup {[type |-> "PortfolioOverviewTab", columns |-> {}, rows |-> << >>]}

\* what the store may be before the call
StoreFiles ==
    {NoFile, DamagedFile("unreadable"), DamagedFile("corrupt"),
     File(to_json(DataFrame(Columns, << Row("VOO", "Vanguard S&P 500 ETF", "Index ETF", 2, 3, 6, 1) >>)))}

InitStore ==
    /\ running = TRUE
    /\ portfolio_df \in StoreTables
    /\ data_file \in StoreFiles
    /\ table_rows = 0
    /\ sector_data = << >>
    /\ outcome = "input"
    /\ saved = "none"
    /\ args \in [io_ok : BOOLEAN]
    /\ result = << >>

\* the call save_portfolio(portfolio_df)
SavePortfolio ==
    /\ outcome = "input"
    /\ data_file' = save_portfolio(data_file, portfolio_df, args.io_ok).file
    /\ saved' = IF save_portfolio(data_file, portfolio_df, args.io_ok).result
                    THEN "True" ELSE "False"
    /\ outcome' = "saved"
    /\ UNCHANGED << running, portfolio_df, table_rows, sector_data, args, result >>

\* the call portfolio_df = load_portfolio()
LoadPortfolio ==
    /\ outcome \in {"input", "saved"}
    /\ portfolio_df' = load_portfolio(data_file)
    /\ outcome' = IF outcome = "saved" THEN "reloaded" ELSE "loaded"
    /\ UNCHANGED << running, data_file, table_rows, sector_data, saved, args, result >>

NextStore == SavePortfolio \/ LoadPortfolio

SpecStore == InitStore /\ [][NextStore]_vars

----------------------------------------------------------------------------
(* The application used without the "Add New" button and without imports:  *)
(* positions are added through the dialog, replaced, refreshed and removed *)

AddPositionNoDuplicate ==
    \E symbol \in Symbols, q \in Quotes, shares \in DialogShares, now \in Times,
       io_ok \in WriteOutcomes :
        \E button \in Buttons(symbol) \ {"Add New"} :
            add_position(symbol, q, shares, now, button, io_ok)

NextManual ==
    \/ AddPositionNoDuplicate
    \/ RefreshPortfolio
    \/ RemoveSelected
    \/ Restart

SpecManual == Init /\ [][NextManual]_vars

----------------------------------------------------------------------------
(* get_security_type on its own: args holds the symbol and what the        *)
(* provider's lookup gives for it                                          *)

\* symbols with and without a trailing F or X
TypeSymbols ==
    {"AAPL", "MSFT", "F", "X", "VOO", "GDX", "XLF", "VFIAX", "SWPPX", "^VIX", "^GSPC",
     "BTC-USD"}

\* the quoteType values of the provider, and a dict without the key
QuoteTypes ==
    {None, Some("EQUITY"), Some("ETF"), Some("MUTUALFUND"), Some("INDEX"),
     Some("CRYPTOCURRENCY")}

\* what the lookup gives: it raises (None), or an info dict
TypeInfos == {None} \cup { Some([quoteType |-> t]) : t \in QuoteTypes }

InitType ==
    /\ running = TRUE
    /\ data_file = NoFile
    /\ portfolio_df = DataFrame(Columns, << >>)
    /\ table_rows = 0
    /\ sector_data = << >>
    /\ outcome = "input"
    /\ saved = "none"
    /\ args \in [symbol : TypeSymbols, info : TypeInfos]
    /\ result = << >>

\* the call get_security_type(symbol)
GetSecurityType ==
    /\ outcome = "input"
    /\ result' = << SecurityType(args.symbol, args.info) >>
    /\ outcome' = "classified"
    /\ UNCHANGED << running, portfolio_df, data_file, table_rows, sector_data, saved, args >>

NextType == GetSecurityType

SpecType == InitType /\ [][NextType]_vars

----------------------------------------------------------------------------
(* get_etf_sector_classification on its own: args holds the symbol and     *)
(* what the provider's lookup gives for it                                 *)

EtfSymbols == {"VOO", "XLF", "GDX"}

\* short names of the provider: the keywords of one bucket, of several
\* buckets, of none, in either case of letters
ShortNames ==
    {"", "Vanguard S&P 500 ETF", "Nasdaq 100 Technology Index Fund", "Tech S&P 500",
     "Total Market", "High Yield Bond", "Treasury", "Biotech Health", "Healthcare",
     "Oil & Gas", "BANK", "Dividend Growth", "Growth Value", "Value", "Bitcoin Trust",
     "Gold Miners", "SP500 Energy", "Financial Income", "Apple Inc."}

\* what the lookup gives: it raises (None), or an info dict with or
\* without a shortName
EtfInfos ==
    {None, Some([shortName |-> None])}
        \cup { Some([shortName |-> Some(n)]) : n \in ShortNames }

InitEtf ==
    /\ running = TRUE
    /\ data_file = NoFile
    /\ portfolio_df = DataFrame(Columns, << >>)
    /\ table_rows = 0
    /\ sector_data = << >>
    /\ outcome = "input"
    /\ saved = "none"
    /\ args \in [symbol : EtfSymbols, info : EtfInfos]
    /\ result = << >>

\* the call get_etf_sector_classification(symbol)
GetEtfSectorClassification ==
    /\ outcome = "input"
    /\ result' = << EtfSectorClassification(args.info) >>
    /\ outcome' = "etf classified"
    /\ UNCHANGED << running, portfolio_df, data_file, table_rows, sector_data, saved, args >>

NextEtf == GetEtfSectorClassification

SpecEtf == InitEtf /\ [][NextEtf]_vars

----------------------------------------------------------------------------
(* get_price on its own: args holds the provider's answer                  *)

\* the values of the four sources, each source with a value of its own
PriceFields ==
    [currentPrice : {None, Some(0), Some(1)},
     regularMarketPrice : {None, Some(0), Some(2)},
     hist : {None, Some(0), Some(3), Some(NaN)},
     previousClose : {None, Some(0), Some(4)}]

\* the provider's answers: the info lookup raises, the history lookup
\* raises, or neither does
PriceQuotes ==
    {QuoteRaises}
        \cup { Quote(FALSE, f.currentPrice, f.regularMarketPrice, f.hist, f.previousClose) :
                 f \in PriceFields }
        \cup { QuoteHistoryRaises(f.currentPrice, f.regularMarketPrice, f.previousClose) :
                 f \in { g \in PriceFields : g.hist = None } }

InitPrice ==
    /\ running = TRUE
    /\ data_file = NoFile
    /\ portfolio_df = DataFrame(Columns, << >>)
    /\ table_rows = 0
    /\ sector_data = << >>
    /\ outcome = "input"
    /\ saved = "none"
    /\ args \in [symbol : {"AAPL"}, q : PriceQuotes]
    /\ result = << >>

\* the call get_price(symbol)
GetPrice ==
    /\ outcome = "input"
    /\ result' = << get_price(args.q) >>
    /\ outcome' = "priced"
    /\ UNCHANGED << running, portfolio_df, data_file, table_rows, sector_data, saved, args >>

NextPrice == GetPrice

SpecPrice == InitPrice /\ [][NextPrice]_vars

----------------------------------------------------------------------------
(* The auto-refresh timer: args holds the local time datetime.now() gives  *)
(* when the timer fires                                                    *)

\* PortfolioTrackerApp.check_auto_refresh at the local time of weekday
\* (Monday is 0), hour and minute
check_auto_refresh(weekday, hour, minute, quotes, now, io_ok) ==
    IF 0 <= weekday /\ weekday <= 4
       /\ ((9 <= hour /\ hour < 16) \/ (hour = 9 /\ minute >= 30))
        THEN refresh_portfolio(quotes, now, io_ok)
        ELSE Return("No refresh")

\* local times on every day of the week, around the opening and the close
\* of the market
TimerTimes == [weekday : 0..6, hour : {8, 9, 10, 15, 16}, minute : {0, 29, 30, 59}]

InitTimer ==
    /\ running = TRUE
    /\ portfolio_df \in BatchTables
    /\ data_file = IF IsEmpty(portfolio_df) THEN NoFile ELSE File(to_json(portfolio_df))
    /\ table_rows = Len(portfolio_df.rows)
    /\ sector_data = << >>
    /\ outcome = "started"
    /\ saved = "none"
    /\ args \in TimerTimes
    /\ result = << >>

\* the timer fires
CheckAutoRefresh ==
    /\ outcome = "started"
    /\ \E quotes \in [1..Len(Holdings) -> Quotes], now \in Times, io_ok \in WriteOutcomes :
           check_auto_refresh(args.weekday, args.hour, args.minute, quotes, now, io_ok)

NextTimer == CheckAutoRefresh

SpecTimer == InitTimer /\ [][NextTimer]_vars

----------------------------------------------------------------------------
(* portfolio_tracker_cli.py: the script's functions, and each of them run  *)
(* beside the service's function on the same input.  args holds the table, *)
(* the provider's answers and the time; result holds what the script's and *)
(* what the service's function return.                                     *)

\* get_price(symbol) of the script
cli_get_price(q) ==
    IF q.raises THEN None
    ELSE IF Truthy(q.currentPrice) THEN q.currentPrice
    ELSE IF Truthy(q.regularMarketPrice) THEN q.regularMarketPrice
    ELSE IF q.histRaises THEN None
    ELSE IF q.hist # None THEN q.hist
    ELSE IF Truthy(q.previousClose) THEN q.previousClose
    ELSE None

\* the columns of the frame create_portfolio() builds
CreateColumns == {"Symbol", "Company", "Sector", "Shares"}

\* create_portfolio(): its first rows, the cells of the columns the frame
\* does not have yet holding what update_portfolio_prices puts there
create_portfolio ==
    DataFrame(CreateColumns,
        << Row("AAPL", "Apple", "Information Technology", 7, 0, 0, NoTime),
           Row("ALT", "Altimmune", "Health Care", 12, 0, 0, NoTime) >>)

\* update_portfolio_prices(df) of the script: quotes[i] is the provider's
\* answer for row i
cli_update_portfolio_prices(df, quotes, now) ==
    DataFrame(df.columns \cup PriceColumns,
        [i \in DOMAIN df.rows |->
            LET row == df.rows[i]
                price == cli_get_price(quotes[i])
            IN  IF Truthy(price)
                    THEN [row EXCEPT !.CurrentPrice = price[1],
                                     !.TotalValue = Mul(price[1], row.Shares),
                                     !.LastUpdated = now]
                    ELSE row])

\* the Percentage column of the script: 0 / 0 is NaN
cli_Percentage(value, total_portfolio) ==
    IF total_portfolio = 0 THEN NaN
    ELSE RoundHalfEven(10000 * value, total_portfolio)

\* calculate_sector_allocation(df) of the script: the set of frames it may
\* return, none when the groupby raises KeyError for a column the frame
\* does not have
cli_calculate_sector_allocation(df) ==
    IF "Sector" \notin df.columns \/ "Total Value" \notin df.columns THEN {}
    ELSE LET groups == GroupBySector(df.rows)
             total_portfolio == SumTotalValue(df.rows)
             summary == [k \in DOMAIN groups |->
                            [Sector |-> groups[k].Sector,
                             TotalValue |-> groups[k].TotalValue,
                             Percentage |-> cli_Percentage(groups[k].TotalValue,
                                                           total_portfolio)]]
         IN  SortValues(summary, DOMAIN summary)

\* tables given to both: without columns, without rows, as create_portfolio
\* builds it, and priced tables worth nothing and worth something
CliTables ==
    {DataFrame({}, << >>),
     DataFrame(Columns, << >>),
     DataFrame(CreateColumns, << >>),
     create_portfolio,
     DataFrame(Columns, << Row("AAPL", "Apple", "Information Technology", 7, 0, 0, 1),
                           Row("ALT", "Altimmune", "Health Care", 12, 0, 0, 1) >>),
     DataFrame(Columns, << Row("AAPL", "Apple", "Information Technology", 1, 3, 3, 1) >>),
     DataFrame(Columns, << Row("AAPL", "Apple", "Information Technology", 1, 1, 1, 1),
                           Row("ALT", "Altimmune", "Health Care", 1, 2, 2, 1) >>)}

\* the provider's answers to the single price lookup
CliQuotes ==
    Quotes \cup {Quote(FALSE, Some(0), None, Some(3), Some(4)),
                 QuoteHistoryRaises(None, None, Some(4))}

InitCli ==
    /\ running = TRUE
    /\ data_file = NoFile
    /\ portfolio_df = DataFrame(Columns, << >>)
    /\ table_rows = 0
    /\ sector_data = << >>
    /\ outcome = "input"
    /\ saved = "none"
    /\ \E df \in CliTables, q \in CliQuotes, now \in Times :
           \E quotes \in [1..Len(df.rows) -> Quotes] :
               args = [df |-> df, q |-> q, quotes |-> quotes, now |-> now]
    /\ result = << >>

\* what a call leaves: the value it returned, or the exception
Returned(value) == [raised |-> FALSE, value |-> value]
Raised == [raised |-> TRUE, value |-> << >>]

\* calculate_sector_allocation returns one of the frames, or raises
AllocationOutcomes(frames) ==
    IF frames = {} THEN {Raised} ELSE { Returned(f) : f \in frames }

\* get_price(symbol) of the script and of the service
BothGetPrice ==
    /\ outcome = "input"
    /\ result' = << Returned(cli_get_price(args.q)), Returned(get_price(args.q)) >>
    /\ outcome' = "prices fetched"
    /\ UNCHANGED << running, portfolio_df, data_file, table_rows, sector_data, saved, args >>

\* update_portfolio_prices(df) of the script and of the service
BothUpdatePortfolioPrices ==
    /\ outcome = "input"
    /\ result' = << Returned(cli_update_portfolio_prices(args.df, args.quotes, args.now)),
                    Returned(update_portfolio_prices(args.df, args.quotes, args.now)) >>
    /\ outcome' = "tables updated"
    /\ UNCHANGED << running, portfolio_df, data_file, table_rows, sector_data, saved, args >>

\* calculate_sector_allocation(df) of the script and of the service; the
\* two sorts are the same sort, so on the same Percentage column they
\* leave the same order
BothCalculateSectorAllocation ==
    /\ outcome = "input"
    /\ \E cli \in AllocationOutcomes(cli_calculate_sector_allocation(args.df)),
          gui \in AllocationOutcomes(calculate_sector_allocation(args.df)) :
           /\ (~cli.raised /\ ~gui.raised
                 /\ [k \in DOMAIN cli.value |-> cli.value[k].Percentage]
                      = [k \in DOMAIN gui.value |-> gui.value[k].Percentage])
                 => cli.value = gui.value
           /\ result' = << cli, gui >>
    /\ outcome' = "allocations calculated"
    /\ UNCHANGED << running, portfolio_df, data_file, table_rows, sector_data, saved, args >>

NextCli ==
    \/ BothGetPrice
    \/ BothUpdatePortfolioPrices
    \/ BothCalculateSectorAllocation

SpecCli == InitCli /\ [][NextCli]_vars

----------------------------------------------------------------------------
(* Properties *)

SymbolsIn(rows) == { rows[i].Symbol : i \in DOMAIN rows }

SectorsIn(rows) == { rows[i].Sector : i \in DOMAIN rows }

Abs(x) == IF x < 0 THEN -x ELSE x

\* sector_data is what the last handler computed from the table as it is now
Fresh ==
    /\ Holdings # << >>
    /\ outcome \in {"Added", "Update", "Add New", "Update Complete", "Removed",
                    "Import Complete"}

\* the sum of the Total Value cells of the rows of one sector that hold a number
SectorTotal(rows, sector) ==
    LET F[i \in 0..Len(rows)] ==
            IF i = 0 THEN 0
            ELSE F[i - 1] + (IF rows[i].Sector = sector /\ ~IsNaN(rows[i].TotalValue)
                                 THEN rows[i].TotalValue ELSE 0)
    IN  F[Len(rows)]

\* the sum of the Total Value cells that hold a number
PortfolioTotal(rows) ==
    LET F[i \in 0..Len(rows)] ==
            IF i = 0 THEN 0
            ELSE F[i - 1] + (IF IsNaN(rows[i].TotalValue) THEN 0 ELSE rows[i].TotalValue)
    IN  F[Len(rows)]

SumOfPercentages(allocation) ==
    LET F[k \in 0..Len(allocation)] ==
            IF k = 0 THEN 0 ELSE F[k - 1] + allocation[k].Percentage
    IN  F[Len(allocation)]

SumOfSectorTotals(allocation) ==
    LET F[k \in 0..Len(allocation)] ==
            IF k = 0 THEN 0 ELSE F[k - 1] + allocation[k].TotalValue
    IN  F[Len(allocation)]

\* the position of a sector name in Python's str order
SectorRank(sector) == CHOOSE k \in DOMAIN SectorNames : SectorNames[k] = sector

\* the first row that carries the symbol
MatchedRow(rows, symbol) ==
    CHOOSE i \in DOMAIN rows :
        rows[i].Symbol = symbol /\ \A j \in 1..(i - 1) : rows[j].Symbol # symbol

\* C1: in every reachable state every row of the holdings table satisfies
\* Total Value = Current Price * Shares.  Fails: a row imported with a
\* non-numeric Shares cell and no price has Shares NaN and Total Value 0.
C1_TotalValueIsPriceTimesShares ==
    \A i \in DOMAIN Holdings :
        Holdings[i].TotalValue = Mul(Holdings[i].CurrentPrice, Holdings[i].Shares)

\* C2 as stated: whenever the portfolio total is greater than 0 the
\* percentages sum to a value within 0.01 of 100.00.  Fails for five
\* sectors worth 1, 1, 1, 1 and 3: 4 * 14.29 + 42.86 = 100.02.
C2_PercentagesSumWithinOneCent ==
    (outcome = "calculated" /\ PortfolioTotal(portfolio_df.rows) > 0)
        => Abs(SumOfPercentages(sector_data) - 10000) <= 1

\* C2 amended: whenever the portfolio total is greater than 0 the
\* percentages sum to a value within 0.005 times the number of sectors of
\* 100.00 (hence within 0.01 for up to three sectors).
C2_PercentagesSumWithinHalfCentPerSector ==
    (outcome = "calculated" /\ PortfolioTotal(portfolio_df.rows) > 0)
        => 2 * Abs(SumOfPercentages(sector_data) - 10000) <= Len(sector_data)

\* five sectors whose rounded percentages sum to 100.02
C2_Witness ==
    /\ outcome = "calculated"
    /\ PortfolioTotal(portfolio_df.rows) > 0
    /\ Len(sector_data) = 5
    /\ SumOfPercentages(sector_data) = 10002

\* C3: for a non-empty table the allocation has exactly one row per distinct
\* Sector, whose Total Value is the sum over the holdings of that sector and
\* whose Percentage is 100 * sector total / portfolio total rounded to two
\* decimals (where the quotient is defined), and the sector totals sum to
\* the portfolio total.  Fails when the portfolio total is negative: every
\* Percentage is 0.
C3_OneRowPerSectorWithItsShare ==
    Fresh =>
        /\ Len(sector_data) = Cardinality(SectorsIn(Holdings))
        /\ { sector_data[k].Sector : k \in DOMAIN sector_data } = SectorsIn(Holdings)
        /\ \A k \in DOMAIN sector_data :
              /\ sector_data[k].TotalValue = SectorTotal(Holdings, sector_data[k].Sector)
              /\ PortfolioTotal(Holdings) # 0 =>
                    sector_data[k].Percentage =
                        RoundHalfEven(10000 * SectorTotal(Holdings, sector_data[k].Sector),
                                      PortfolioTotal(Holdings))
        /\ SumOfSectorTotals(sector_data) = PortfolioTotal(Holdings)

\* C4: when the Total Value cells sum to zero, every row of the allocation
\* has Percentage 0 (the quotient by the zero total is never formed).
C4_ZeroTotalGivesZeroPercentages ==
    (outcome = "calculated" /\ PortfolioTotal(portfolio_df.rows) = 0)
        => \A k \in DOMAIN sector_data : sector_data[k].Percentage = 0

\* a table of several sectors, all worth 0, has been allocated
C4_Witness ==
    /\ outcome = "calculated"
    /\ PortfolioTotal(portfolio_df.rows) = 0
    /\ Len(sector_data) >= 2

\* C5: for an empty table calculate_sector_allocation returns (the call is
\* enabled: it raises nothing) and what it returns has no rows.
C5_EmptyTableGivesEmptyResult ==
    IsEmpty(portfolio_df) =>
        IF outcome = "calculated" THEN sector_data = << >>
        ELSE ENABLED CalculateSectorAllocation

\* the call has returned for an empty table
C5_Witness ==
    /\ IsEmpty(portfolio_df)
    /\ outcome = "calculated"

\* C6: the rows of the allocation are in descending order of Percentage, and
\* rows of equal Percentage in ascending order of sector name.  Fails: the
\* sort has one key and is not stable, so tied sectors come in any order.
C6_SortedByPercentageThenSectorName ==
    outcome = "calculated" =>
        \A i, j \in DOMAIN sector_data :
            i < j =>
                \/ sector_data[i].Percentage > sector_data[j].Percentage
                \/ /\ sector_data[i].Percentage = sector_data[j].Percentage
                   /\ SectorRank(sector_data[i].Sector) < SectorRank(sector_data[j].Sector)

\* C7: adding a holding whose symbol is not in the table appends one row
\* and leaves the rows that were there as they were.  Fails on the table
\* reloaded from a store that holds no record: the frame has no 'Symbol'
\* column and add_position raises KeyError.
C7_AddingANewSymbolAppendsOneRow ==
    [][\A symbol \in Symbols, q \in Quotes, shares \in DialogShares, now \in Times,
          io_ok \in WriteOutcomes :
            ( /\ portfolio_df.type = "DataFrame"
              /\ symbol \notin SymbolsIn(Holdings)
              /\ add_position(symbol, q, shares, now, "none", io_ok) )
            => /\ Len(Holdings') = Len(Holdings) + 1
               /\ SubSeq(Holdings', 1, Len(Holdings)) = Holdings
               /\ Holdings'[Len(Holdings')].Symbol = symbol]_vars

\* C8: Replace (the Update button) keeps the row count, changes only Shares,
\* Current Price, Total Value and Last Updated of the matched row, and
\* leaves every other row as it was.
C8_ReplaceChangesOnlyTheMatchedRow ==
    [][\A symbol \in Symbols, q \in Quotes, shares \in DialogShares, now \in Times,
          io_ok \in WriteOutcomes :
            ( /\ symbol \in SymbolsIn(Holdings)
              /\ add_position(symbol, q, shares, now, "Update", io_ok) )
            => LET idx == MatchedRow(Holdings, symbol)
               IN  /\ Len(Holdings') = Len(Holdings)
                   /\ \A j \in DOMAIN Holdings : j # idx => Holdings'[j] = Holdings[j]
                   /\ Holdings'[idx].Symbol = Holdings[idx].Symbol
                   /\ Holdings'[idx].Company = Holdings[idx].Company
                   /\ Holdings'[idx].Sector = Holdings[idx].Sector
                   /\ Holdings'[idx].Shares = shares
                   /\ Holdings'[idx].CurrentPrice = search_stock(symbol, q)[1].price
                   /\ Holdings'[idx].TotalValue = Mul(search_stock(symbol, q)[1].price, shares)
                   /\ Holdings'[idx].LastUpdated = now]_vars

\* a Replace has acted on a table of two rows, one of which it left alone
C8_Witness ==
    /\ outcome = "Update"
    /\ Len(Holdings) = 2
    /\ Holdings[1].Symbol # Holdings[2].Symbol

\* C9: adding a symbol that is in the table ends in the outcome of the
\* button chosen, one of Update, Add New and Cancel, and with Cancel the
\* table, the store file and the widget are as before and nothing is saved.
C9_TheCallerChoosesAndCancelChangesNothing ==
    [][\A symbol \in Symbols, q \in Quotes, shares \in DialogShares, now \in Times,
          io_ok \in WriteOutcomes, button \in {"Update", "Add New", "Cancel"} :
            ( /\ symbol \in SymbolsIn(Holdings)
              /\ add_position(symbol, q, shares, now, button, io_ok) )
            => /\ outcome' = button
               /\ button = "Cancel" =>
                     /\ portfolio_df' = portfolio_df
                     /\ data_file' = data_file
                     /\ table_rows' = table_rows
                     /\ saved' = "none"]_vars

\* a Cancel has been chosen on a table with rows
C9_Witness ==
    /\ outcome = "Cancel"
    /\ Holdings # << >>

\* C10: a refresh leaves the rows without a price as they were, gives the
\* rows with a price that price, Total Value = price * Shares and the time
\* of the refresh, and keeps the row count, the symbols in their order and
\* every Company, Sector and Shares; rows after a failed one are refreshed
\* like any other.
C10_RefreshUpdatesExactlyThePricedRows ==
    [][\A now \in Times, io_ok \in WriteOutcomes :
        \A quotes \in [1..Len(Holdings) -> Quotes] :
            refresh_portfolio(quotes, now, io_ok)
            => /\ Len(Holdings') = Len(Holdings)
               /\ \A i \in DOMAIN Holdings :
                     LET price == get_price(quotes[i])
                     IN  /\ Holdings'[i].Symbol = Holdings[i].Symbol
                         /\ Holdings'[i].Company = Holdings[i].Company
                         /\ Holdings'[i].Sector = Holdings[i].Sector
                         /\ Holdings'[i].Shares = Holdings[i].Shares
                         /\ IF price = None THEN Holdings'[i] = Holdings[i]
                            ELSE /\ Holdings'[i].CurrentPrice = price[1]
                                 /\ Holdings'[i].TotalValue = Mul(price[1], Holdings[i].Shares)
                                 /\ Holdings'[i].LastUpdated = now]_vars

\* a refresh has priced the second row after the first one stayed unpriced
C10_Witness ==
    /\ outcome = "Update Complete"
    /\ Len(Holdings) = 2
    /\ Holdings[1].CurrentPrice = 0
    /\ Holdings[2].CurrentPrice # 0
    /\ Holdings[1].LastUpdated # Holdings[2].LastUpdated

\* the last handler was one that changes the holdings table
Mutated ==
    outcome \in {"Added", "Update", "Add New", "Update Complete", "Removed",
                 "Import Complete", "Import Failed"}

\* C11: after every mutating operation has returned, the store file holds
\* the in-memory holdings table.  Fails after an import of a file that has
\* Company and Sector columns: portfolio_df is the tab itself, nothing is
\* written, and the file keeps the table of before the import.
C11_StoreHoldsTheTableAfterEveryMutation ==
    Mutated =>
        /\ portfolio_df.type = "DataFrame"
        /\ data_file.exists
        /\ read_json(data_file.text).rows = portfolio_df.rows

\* C12: an import of a file that has Company and Sector columns leaves a
\* holdings table that is the existing rows followed by the imported rows,
\* and that table is the one written to the store and shown in the widget.
\* Fails: the handler stores the tab itself in portfolio_df, so no table is
\* left, nothing is written and the widget is cleared.
C12_FullInfoImportAppendsTheImportedRows ==
    [][(portfolio_df.type = "DataFrame" /\ ImportFullInfo) =>
          /\ portfolio_df'.type = "DataFrame"
          /\ Len(Holdings') >= Len(Holdings)
          /\ SubSeq(Holdings', 1, Len(Holdings)) = Holdings
          /\ data_file' = File(to_json(portfolio_df'))
          /\ table_rows' = Len(Holdings')]_vars

\* C13: an import of a file without Company and Sector keeps every imported
\* row after the rows that were there: a row whose lookup raised or that
\* got no price has Current Price 0 and Total Value 0 (and Sector '' when
\* the lookup raised), every other row has its price and price * Shares
\* whatever happened to the rows before it, and the message counts the
\* rows that got a price out of all the imported rows.
C13_EveryRowIsResolvedOnItsOwn ==
    [][ImportBatch =>
          LET imported == args.imported
              envs == args.envs
              n == Len(Holdings)
              priced == { i \in DOMAIN imported : Holdings'[n + i].CurrentPrice # 0 }
          IN  /\ Len(Holdings') = n + Len(imported)
              /\ SubSeq(Holdings', 1, n) = Holdings
              /\ \A i \in DOMAIN imported :
                    /\ Holdings'[n + i].Symbol = imported[i].Symbol
                    /\ Holdings'[n + i].Shares = to_numeric(imported[i].Shares)
                    /\ envs[i].info_raises => Holdings'[n + i].Sector = ""
                    /\ IF envs[i].info_raises \/ get_price(envs[i].quote) = None
                           THEN /\ Holdings'[n + i].CurrentPrice = 0
                                /\ Holdings'[n + i].TotalValue = 0
                           ELSE /\ Holdings'[n + i].CurrentPrice = get_price(envs[i].quote)[1]
                                /\ Holdings'[n + i].TotalValue =
                                       Mul(get_price(envs[i].quote)[1],
                                           to_numeric(imported[i].Shares))
                                /\ Holdings'[n + i].Sector # ""
              /\ result' = << Cardinality(priced), Len(imported) >>]_vars

\* two rows were imported: the lookup of the first raised, the second got
\* its price, and the message says 1 of 2
C13_Witness ==
    /\ outcome = "Import Complete"
    /\ result = << 1, 2 >>
    /\ Len(Holdings) >= 2
    /\ Holdings[Len(Holdings) - 1].CurrentPrice = 0
    /\ Holdings[Len(Holdings) - 1].Sector = ""
    /\ Holdings[Len(Holdings)].CurrentPrice = 3

\* the store holds nothing that load_portfolio can read
NothingToLoad == ~data_file.exists \/ data_file.damage # "none"

\* C14: load_portfolio returns for every store (the call is enabled: it
\* raises nothing), and for a store file that does not exist, cannot be
\* read or holds corrupt content it returns the empty table with the
\* canonical columns.
C14_LoadFailsSoftToTheCanonicalEmptyTable ==
    /\ outcome = "input" => ENABLED LoadPortfolio
    /\ (outcome = "loaded" /\ NothingToLoad) =>
          /\ portfolio_df.type = "DataFrame"
          /\ portfolio_df.rows = << >>
          /\ portfolio_df.columns = {"Symbol", "Company", "Sector", "Shares",
                                     "Current Price", "Total Value", "Last Updated"}

\* a store with corrupt content has been loaded
C14_Witness ==
    /\ outcome = "loaded"
    /\ data_file.exists
    /\ data_file.damage = "corrupt"
    /\ portfolio_df.rows = << >>

\* C15: save_portfolio returns for every argument and every outcome of the
\* write (it raises nothing), returns True exactly when the table was
\* written and False otherwise, and leaves the object it was given as it
\* was.
C15_SaveFailsSoftAndKeepsTheTable ==
    /\ [](outcome = "input" => ENABLED SavePortfolio)
    /\ [][SavePortfolio =>
            /\ saved' = IF args.io_ok /\ portfolio_df.type = "DataFrame"
                            THEN "True" ELSE "False"
            /\ saved' = "True" => data_file' = File(to_json(portfolio_df))
            /\ portfolio_df' = portfolio_df]_vars

\* a write has failed for a table with rows
C15_Witness ==
    /\ outcome = "saved"
    /\ saved = "False"
    /\ ~args.io_ok
    /\ portfolio_df.type = "DataFrame"
    /\ portfolio_df.rows # << >>

\* C16: loading the store after a successful save returns a table with the
\* columns and the rows, in their order, of the table that was saved.
\* Fails for the empty table: it is written as [] and read back as a frame
\* without columns.
C16_SaveThenLoadReturnsTheTable ==
    [][(outcome = "saved" /\ saved = "True" /\ LoadPortfolio) =>
          /\ portfolio_df'.columns = portfolio_df.columns
          /\ portfolio_df'.rows = portfolio_df.rows]_vars

\* C17: while the "Add New" button and the import are not used, no two rows
\* of the holdings table carry the same Symbol.
C17_SymbolsAreUnique ==
    \A i, j \in DOMAIN Holdings :
        i # j => Holdings[i].Symbol # Holdings[j].Symbol

\* a symbol of a table of two rows was entered again and replaced
C17_Witness ==
    /\ outcome = "Update"
    /\ Len(Holdings) = 2

\* C18: in every reachable state every row's Shares is a number greater
\* than 0.  Fails: the import takes the Shares column as it is read, so a
\* negative number and a cell that is no number (NaN) reach the table.
C18_SharesArePositive ==
    \A i \in DOMAIN Holdings :
        /\ ~IsNaN(Holdings[i].Shares)
        /\ Holdings[i].Shares > 0

\* C19: in every reachable state a row that was never priced (Current
\* Price 0) has no Last Updated time.  Fails: the import stamps every row
\* and the dialog stamps the position whether or not a price came.
C19_NeverPricedRowsHaveNoLastUpdated ==
    \A i \in DOMAIN Holdings :
        Holdings[i].CurrentPrice = 0 => Holdings[i].LastUpdated \notin Times

\* the quote type of the metadata names the kind (in any case of letters)
Names(info, kind) ==
    Contains(Lower(Chars(Get(info.quoteType, ""))), Chars(kind))

\* C20: get_security_type returns one of Stock, ETF, Mutual Fund and Index,
\* by the quote type first: a quote type that names ETF, mutual fund or
\* index gives that kind whatever the symbol ends in; only otherwise a
\* trailing F gives ETF and a trailing X gives Mutual Fund; Stock when
\* nothing matches or the lookup raises.  Fails: the trailing letter is
\* tested together with the quote type of each kind in turn, and the
\* mutual fund test can match no lower-cased quote type.
C20_QuoteTypeDecidesBeforeTheTrailingLetter ==
    outcome = "classified" =>
        /\ result[1] \in {"Stock", "ETF", "Mutual Fund", "Index"}
        /\ result[1] =
              IF args.info = None THEN "Stock"
              ELSE IF Names(args.info[1], "etf") THEN "ETF"
              ELSE IF Names(args.info[1], "mutualfund") THEN "Mutual Fund"
              ELSE IF Names(args.info[1], "index") THEN "Index"
              ELSE IF EndsWith(Chars(args.symbol), "F") THEN "ETF"
              ELSE IF EndsWith(Chars(args.symbol), "X") THEN "Mutual Fund"
              ELSE "Stock"

\* the buckets of the classification in their order of priority
Buckets ==
    << [label |-> "Bond ETF", terms |-> {"bond", "treasury", "income"}],
       [label |-> "Technology ETF", terms |-> {"nasdaq", "tech", "technology"}],
       [label |-> "Index ETF", terms |-> {"s&p", "sp500", "500", "total market"}],
       [label |-> "Healthcare ETF", terms |-> {"health", "healthcare"}],
       [label |-> "Energy ETF", terms |-> {"energy", "oil", "gas"}],
       [label |-> "Financial ETF", terms |-> {"financial", "bank"}],
       [label |-> "Dividend ETF", terms |-> {"dividend", "yield"}],
       [label |-> "Growth ETF", terms |-> {"growth"}],
       [label |-> "Value ETF", terms |-> {"value"}],
       [label |-> "Crypto ETF", terms |-> {"bitcoin", "crypto"}] >>

\* the buckets one of whose keywords occurs in the lower-cased short name
Matching(info) ==
    IF info = None THEN {}
    ELSE { i \in DOMAIN Buckets :
             ContainsAny(Lower(Chars(Get(info[1].shortName, ""))), Buckets[i].terms) }

\* C21: get_etf_sector_classification returns the label of the first
\* bucket, in the order Bond, Technology, Index, Healthcare, Energy,
\* Financial, Dividend, Growth, Value, Crypto, one of whose keywords occurs
\* in the lower-cased short name, and ETF when no bucket matches or the
\* lookup raises; a name with a technology and an index keyword gives
\* Technology ETF.
C21_FirstMatchingBucketWins ==
    outcome = "etf classified" =>
        /\ Matching(args.info) = {} => result[1] = "ETF"
        /\ Matching(args.info) # {} =>
              \E i \in Matching(args.info) :
                  /\ \A j \in Matching(args.info) : i <= j
                  /\ result[1] = Buckets[i].label
        /\ {2, 3} \subseteq Matching(args.info) => result[1] = "Technology ETF"

C21_Witness ==
    /\ outcome = "etf classified"
    /\ {2, 3} \subseteq Matching(args.info)
    /\ result[1] = "Technology ETF"

\* the sources of a price in their order, each with what it offers: an info
\* field offers its value unless it is missing or zero, the history offers
\* its last close unless it is empty
Offers(q) ==
    << IF Truthy(q.currentPrice) THEN q.currentPrice ELSE None,
       IF Truthy(q.regularMarketPrice) THEN q.regularMarketPrice ELSE None,
       q.hist,
       IF Truthy(q.previousClose) THEN q.previousClose ELSE None >>

\* the sources get_price can reach: the history lookup is source 3, and
\* when it raises nothing from it on is reached
Reached(q) == IF q.histRaises THEN {1, 2} ELSE {1, 2, 3, 4}

\* C23: get_price returns the first usable value in the order currentPrice,
\* regularMarketPrice, last one-day close, previousClose (a missing or zero
\* info field is skipped, the close is used whenever the history is not
\* empty), None when there is none or the provider raises, and it always
\* returns.
C23_FirstUsablePriceOrNone ==
    /\ outcome = "input" => ENABLED GetPrice
    /\ outcome = "priced" =>
          LET q == args.q
              usable == { i \in Reached(q) : Offers(q)[i] # None }
          IN  IF q.raises \/ usable = {} THEN result[1] = None
              ELSE \E i \in usable :
                      /\ \A j \in usable : i <= j
                      /\ result[1] = Offers(q)[i]

\* a zero current price and a missing regular price are skipped and a zero
\* close of a non-empty history is returned before the previous close
C23_Witness ==
    /\ outcome = "priced"
    /\ args.q.currentPrice = Some(0)
    /\ args.q.regularMarketPrice = None
    /\ args.q.hist = Some(0)
    /\ args.q.previousClose = Some(4)
    /\ result[1] = Some(0)

\* Monday to Friday, at or after 9:30 and before 16:00
MarketHours(t) ==
    /\ t.weekday \in 0..4
    /\ 9 * 60 + 30 <= t.hour * 60 + t.minute
    /\ t.hour * 60 + t.minute < 16 * 60

\* C24: check_auto_refresh triggers a refresh only on Monday to Friday at
\* or after 9:30 and before 16:00; at any other time (9:00 to 9:29,
\* weekends, 16:00 or later) nothing is refreshed and the table and the
\* store are unchanged.  Fails: the test of the hour alone admits the whole
\* hour from 9:00.
C24_RefreshOnlyInMarketHours ==
    [][CheckAutoRefresh /\ ~MarketHours(args) =>
          /\ outcome' = "No refresh"
          /\ UNCHANGED << portfolio_df, data_file, table_rows >>]_vars

\* the positions of rows that stay when the rows at the selected table
\* positions (counted from 0) go, in ascending order
Staying(rows, selected_rows) ==
    LET stay == { i \in DOMAIN rows : (i - 1) \notin selected_rows }
    IN  CHOOSE f \in [1..Cardinality(stay) -> stay] :
            \A a, b \in 1..Cardinality(stay) : a < b => f[a] < f[b]

C22_ScriptAndServiceReturnTheSame ==
    outcome \in {"prices fetched", "tables updated", "allocations calculated"}
        => result[1] = result[2]

====
